---- MODULE Spec2Model ----
(***************************************************************************)
(* The node-local upgrade agent of src/main.py (class UpdateAgent): the    *)
(* operation directories under the hostpath root, the annotations of the   *)
(* agent's own node, and the agent process as a sequential program whose   *)
(* position (pc) advances one file-system or API effect at a time, so that *)
(* the process can be killed between any two effects.  With it: the        *)
(* snapshot requests check_backup_requests serves at the end of a tick,    *)
(* one call of step_verify_node against a clock, and the package manager   *)
(* the steps look for on the host.                                         *)
(***************************************************************************)
EXTENDS Integers, Sequences, FiniteSets, TLC

\* ------------------------------------------------------------------ bounds
\* How often the environment acts: a write of the controller, a kill of the
\* process, a cluster API call that raises, a step function that raises, a
\* package manager installed on the host or taken off it.
MaxEvents == 3

\* ------------------------------------------------------------------ values
\* A name (an operation id, a directory entry) is the sequence of its parts;
\* Prefix is the part 'operation-'.
Prefix == "operation-"
\* Operation ids the controller hands out, and one that holds the prefix.
Ops == {<<"op1">>, <<"op2">>}
OddOp == <<Prefix, "op1">>
AllOps == Ops \cup {OddOp}
\* An annotation that is not on the node; the empty string is a value.
NoId == <<"none">>
EmptyId == << >>
Absent == "absent"
\* A components annotation is the sequence of its comma-separated tokens;
\* the annotation not being set is the sequence of no token.
CompsAbsent == << >>
CompsValues == {CompsAbsent, <<"containerd">>}
TargetVersions == {"1.29.4"}
NoVersion == "none"

NoFail == [step |-> 0, name |-> ""]
NoMeta == [state |-> "none", target_version |-> NoVersion, components |-> << >>]
EmptyDir ==
    [dir |-> FALSE, logs |-> FALSE, meta |-> NoMeta, steps |-> {},
     failed |-> NoFail, completed |-> FALSE]
NoAnnotations ==
    [opid |-> NoId, status |-> Absent, target_version |-> NoVersion,
     components |-> CompsAbsent]

\* step_verify_node: max_wait, and the seconds of its time.sleep.
MaxWait == 300
PollInterval == 10

\* NODE_NAME, and the name of another node of the cluster.
NodeName == "node-a"
PeerName == "node-b"
\* The names of the snapshot-request config maps, and no config map.
ReqNames == {"req1", "req2"}
NoReq == [name |-> "none", node_name |-> "none", operation_id |-> NoId,
          snapshot_name |-> "none"]

VARIABLES
    pc,         \* where the agent process is; "down" when it is not running
    todo,       \* resume_operations: directory entries not yet visited
    curOp,      \* process_operation: operation_id
    resume,     \* process_operation: resume
    caller,     \* who called process_operation
    argTv,      \* process_operation: target_version
    argComps,   \* process_operation: components
    plan,       \* process_operation: the names of steps
    i,          \* process_operation: the loop index
    patchVal,   \* the status value process_operation is about to patch
    disk,       \* hostpath root: operation id -> operation directory
    ann,        \* the annotations of the agent's node
    isCP,       \* the node carries a control-plane or master label
    events,     \* acts of the environment so far
    ctlSince,   \* operations the controller set pending since their last failure
    backupEnabled, \* BACKUP_STORE_ENABLED
    requests,   \* the snapshot-request config maps of the namespace
    statuses,   \* the backup-status config maps of the namespace
    snapshots,  \* hostpath root: the .db files, by snapshot name
    errored,    \* requests whose perform_etcd_backup has raised
    items,      \* check_backup_requests: cms.items not yet visited
    cur,        \* check_backup_requests: cm
    unsched,    \* spec.unschedulable of the agent's node
    peer,       \* another node of the cluster: its annotations, its unschedulable
    vpc,        \* step_verify_node: where the call is; "off" when there is none
    elapsed,    \* step_verify_node: time.time() - start_time, in seconds
    wake,       \* step_verify_node: when the time.sleep under way ends
    polls,      \* step_verify_node: read_node calls made
    ready,      \* the node's Ready condition is True
    shown,      \* Ready was True at some time of the first max_wait seconds
    readRaised, \* a read_node of step_verify_node has raised
    pkgMgr,     \* the package manager shutil.which finds on the host
    hadPkg,     \* the host has had a package manager since the agent's start
    firstPlan   \* operation id -> the steps of its first process_operation

snapState == <<backupEnabled, requests, statuses, snapshots, errored>>
snapLocals == <<items, cur>>
verifyVars == <<vpc, elapsed, wake, polls, ready, shown, readRaised>>
host == <<pkgMgr, hadPkg>>
hostAndPlans == <<host, firstPlan>>
others == <<snapState, snapLocals, unsched, peer, verifyVars, hostAndPlans>>

vars ==
    <<pc, todo, curOp, resume, caller, argTv, argComps, plan, i, patchVal,
      disk, ann, isCP, events, ctlSince, others>>

locals == <<curOp, resume, caller, argTv, argComps, plan, i, patchVal>>

\* ------------------------------------------------------------- step plan
HasContainerd(components) ==
    \E k \in 1..Len(components) : components[k] = "containerd"

\* The plan with upgrade-containerd whatever the components are.
GetUpgradeStepsAlwaysContainerd(is_control_plane, components) ==
    IF is_control_plane
    THEN <<"download-packages", "upgrade-kubeadm", "kubeadm-upgrade",
           "upgrade-kubelet", "upgrade-containerd", "restart-kubelet",
           "verify-node">>
    ELSE <<"download-packages", "drain-node", "upgrade-kubeadm",
           "kubeadm-upgrade-node", "upgrade-kubelet", "upgrade-containerd",
           "restart-kubelet", "verify-node", "uncordon-node">>

GetUpgradeSteps(is_control_plane, components) ==
    IF is_control_plane
    THEN <<"download-packages", "upgrade-kubeadm", "kubeadm-upgrade",
           "upgrade-kubelet">>
         \o (IF HasContainerd(components) THEN <<"upgrade-containerd">> ELSE << >>)
         \o <<"restart-kubelet", "verify-node">>
    ELSE <<"download-packages", "drain-node", "upgrade-kubeadm",
           "kubeadm-upgrade-node", "upgrade-kubelet">>
         \o (IF HasContainerd(components) THEN <<"upgrade-containerd">> ELSE << >>)
         \o <<"restart-kubelet", "verify-node", "uncordon-node">>

\* The package managers the steps know, and none of them on the PATH.
PackageManagers == {"apt-get", "yum"}
NoPackageManager == "none"

\* Only step_download_packages raising without a package manager.
NeedsPackageManagerDownloadOnly(name) == name = "download-packages"

\* The steps that raise when shutil.which finds neither apt-get nor yum.
NeedsPackageManager(name) ==
    name \in {"download-packages", "upgrade-kubeadm", "upgrade-kubelet"}

\* The step's if/elif over shutil.which falls through to its raise.
UnsupportedHost(name) == NeedsPackageManager(name) /\ pkgMgr = NoPackageManager

\* read_node raising makes the node a worker.
IsControlPlaneNode(apiOk) == IF apiOk THEN isCP ELSE FALSE

\* ------------------------------------------------------------- annotations
\* annotations.get('.../components', '').split(',')
Components(a) == IF a.components = CompsAbsent THEN <<"">> ELSE a.components

\* The status read without its default.
StatusNoDefault(a) == a.status

\* annotations.get('.../status', 'pending')
StatusOrDefault(a) == IF a.status = Absent THEN "pending" ELSE a.status

ShouldDispatch(a) ==
    /\ a.opid # NoId
    /\ a.opid # EmptyId
    /\ StatusOrDefault(a) = "pending"

\* A patch that replaces the annotations by the one key.
PatchReplacing(a, key, value) == [NoAnnotations EXCEPT ![key] = value]

\* A JSON merge patch of one annotation key.
MergePatch(a, key, value) == [a EXCEPT ![key] = value]

\* ------------------------------------------------------------- directories
\* f'operation-{operation_id}'
DirName(operation_id) == <<Prefix>> \o operation_id

\* entry.name.replace('operation-', ''): every occurrence is taken out.
OperationIdOf(name) == SelectSeq(name, LAMBDA part : part # Prefix)

\* The operation id whose directory has this name.
DirOf(name) == CHOOSE op \in AllOps : DirName(op) = name

StepFile(n, name, kind) == <<n, name, kind>>
HasFile(op, f) == f \in disk[op].steps
Terminal(op) == disk[op].completed \/ disk[op].failed # NoFail

ResetLocals ==
    /\ curOp' = NoId
    /\ resume' = FALSE
    /\ caller' = "none"
    /\ argTv' = NoVersion
    /\ argComps' = << >>
    /\ plan' = << >>
    /\ i' = 0
    /\ patchVal' = "none"

\* The call process_operation(op, tv, comps, resume) from `from`.
Call(op, tv, comps, res, from) ==
    /\ pc' = "po_mkdir"
    /\ curOp' = op
    /\ resume' = res
    /\ caller' = from
    /\ argTv' = tv
    /\ argComps' = comps
    /\ plan' = << >>
    /\ i' = 0
    /\ patchVal' = "none"

\* A call into the environment returns (ok) or raises.
ApiOutcome(ok) ==
    IF ok THEN events' = events ELSE events < MaxEvents /\ events' = events + 1

\* create_backup_status: the name of the status config map.
StatusName(operation_id) == <<"backup-status", operation_id, NodeName>>

\* create_backup_status: create_namespaced_config_map; a refused create (the
\* name exists, or the call raises) is logged and dropped.
CreateBackupStatus(operation_id, success, apiOk) ==
    IF apiOk /\ \A s \in statuses : s.name # StatusName(operation_id)
    THEN statuses \cup {[name |-> StatusName(operation_id), success |-> success]}
    ELSE statuses

\* The raise of perform_etcd_backup caught by nobody: the process ends.
BackupExceptEscapes ==
    /\ pc = "bk_except"
    /\ \E apiOk \in BOOLEAN :
        /\ ApiOutcome(apiOk)
        /\ statuses' = CreateBackupStatus(cur.operation_id, FALSE, apiOk)
    /\ pc' = "down"
    /\ items' = {}
    /\ cur' = NoReq
    /\ UNCHANGED <<todo, locals, disk, ann, isCP, ctlSince, backupEnabled, requests,
                   snapshots, errored, unsched, peer, verifyVars, hostAndPlans>>

ReturnPc ==
    IF caller = "resume" THEN "resume"
    ELSE IF caller = "reconcile" THEN "backup"
    ELSE "idle"

\* The state after construction, but for the sink setting.
InitAgent ==
    /\ pc = "resume"
    /\ todo = {}
    /\ curOp = NoId
    /\ resume = FALSE
    /\ caller = "none"
    /\ argTv = NoVersion
    /\ argComps = << >>
    /\ plan = << >>
    /\ i = 0
    /\ patchVal = "none"
    /\ disk = [op \in AllOps |-> EmptyDir]
    /\ ann = NoAnnotations
    /\ isCP \in BOOLEAN
    /\ events = 0
    /\ ctlSince = {}
    /\ requests = {}
    /\ statuses = {}
    /\ snapshots = {}
    /\ errored = {}
    /\ items = {}
    /\ cur = NoReq
    /\ unsched = FALSE
    /\ peer = [ann |-> NoAnnotations, unsched |-> FALSE]
    /\ vpc = "off"
    /\ elapsed = 0
    /\ wake = 0
    /\ polls = 0
    /\ ready = FALSE
    /\ shown = FALSE
    /\ readRaised = FALSE
    /\ firstPlan = [op \in AllOps |-> << >>]

\* The host with package manager m, or with none.
HostWith(m) == pkgMgr = m /\ hadPkg = (m # NoPackageManager)

\* BACKUP_STORE_ENABLED is not set: its default, false.
Init == InitAgent /\ backupEnabled = FALSE /\ HostWith("apt-get")

\* BACKUP_STORE_ENABLED is set, to true or to false.
InitSnap == InitAgent /\ backupEnabled \in BOOLEAN /\ HostWith("apt-get")

\* ------------------------------------------------------------- the agent
\* run(): resume_operations has visited every entry; enter the loop.
ResumeDone ==
    /\ pc = "resume"
    /\ todo = {}
    /\ pc' = "idle"
    /\ UNCHANGED <<todo, locals, disk, ann, isCP, events, ctlSince, others>>

\* resume_operations: the next entry of hostpath_root.iterdir().
ResumeScan ==
    /\ pc = "resume"
    /\ \E entry \in todo :
        /\ todo' = todo \ {entry}
        /\ IF ~disk[DirOf(entry)].completed /\ disk[DirOf(entry)].failed = NoFail
           THEN Call(OperationIdOf(entry), NoVersion, << >>, TRUE, "resume")
           ELSE pc' = pc /\ UNCHANGED locals
    /\ UNCHANGED <<disk, ann, isCP, events, ctlSince, others>>

\* reconcile: read_node raises; the exception is logged and the tick ends.
TickReadFails ==
    /\ pc = "idle"
    /\ pc' = "idle"
    /\ UNCHANGED <<todo, locals, disk, ann, isCP, events, ctlSince, others>>

\* reconcile: the node is read and a pending operation is dispatched.
TickDispatch ==
    /\ pc = "idle"
    /\ ShouldDispatch(ann)
    /\ Call(ann.opid, ann.target_version, Components(ann), FALSE, "reconcile")
    /\ UNCHANGED <<todo, disk, ann, isCP, events, ctlSince, others>>

\* reconcile: the node is read and there is nothing to dispatch.
TickNoWork ==
    /\ pc = "idle"
    /\ ~ShouldDispatch(ann)
    /\ pc' = "backup"
    /\ UNCHANGED <<todo, locals, disk, ann, isCP, events, ctlSince, others>>

\* check_backup_requests with BACKUP_STORE_ENABLED false: return; then the
\* sleep of run().
CheckBackupRequests ==
    /\ pc = "backup"
    /\ ~backupEnabled
    /\ pc' = "idle"
    /\ UNCHANGED <<todo, locals, disk, ann, isCP, events, ctlSince, others>>

\* check_backup_requests: list_namespaced_config_map returns the labelled
\* config maps, or raises and the except of the function ends the call.
BackupList ==
    /\ pc = "backup"
    /\ backupEnabled
    /\ \E apiOk \in BOOLEAN :
        /\ ApiOutcome(apiOk)
        /\ items' = IF apiOk THEN requests ELSE {}
        /\ pc' = IF apiOk THEN "bk_next" ELSE "idle"
    /\ UNCHANGED <<todo, locals, disk, ann, isCP, ctlSince, snapState, cur, unsched,
                   peer, verifyVars, hostAndPlans>>

\* check_backup_requests: the for loop has visited every item.
BackupLoopEnd ==
    /\ pc = "bk_next"
    /\ items = {}
    /\ pc' = "idle"
    /\ UNCHANGED <<todo, locals, disk, ann, isCP, events, ctlSince, others>>

\* check_backup_requests: the next item; one of another node is passed over.
BackupNext ==
    /\ pc = "bk_next"
    /\ \E cm \in items :
        /\ items' = items \ {cm}
        /\ IF cm.node_name # NodeName
           THEN pc' = pc /\ cur' = cur
           ELSE pc' = "bk_snapshot" /\ cur' = cm
    /\ UNCHANGED <<todo, locals, disk, ann, isCP, events, ctlSince, snapState,
                   unsched, peer, verifyVars, hostAndPlans>>

\* perform_etcd_backup: etcdctl snapshot save, snapshot status, upload_backup.
\* When one of them raises, the .db file is there unless it was the save.
PerformEtcdBackup ==
    /\ pc = "bk_snapshot"
    /\ \E ok \in BOOLEAN, saved \in BOOLEAN :
        /\ ApiOutcome(ok)
        /\ ok => saved
        /\ errored' = IF ok THEN errored ELSE errored \cup {cur.name}
        /\ snapshots' = IF saved THEN snapshots \cup {cur.snapshot_name} ELSE snapshots
        /\ pc' = IF ok THEN "bk_status" ELSE "bk_except"
    /\ UNCHANGED <<todo, locals, disk, ann, isCP, ctlSince, backupEnabled, requests,
                   statuses, snapLocals, unsched, peer, verifyVars, hostAndPlans>>

\* perform_etcd_backup: create_backup_status(operation_id, snapshot_name, True, path)
BackupStatus ==
    /\ pc = "bk_status"
    /\ \E apiOk \in BOOLEAN :
        /\ ApiOutcome(apiOk)
        /\ statuses' = CreateBackupStatus(cur.operation_id, TRUE, apiOk)
    /\ pc' = "bk_delete"
    /\ UNCHANGED <<todo, locals, disk, ann, isCP, ctlSince, backupEnabled, requests,
                   snapshots, errored, snapLocals, unsched, peer, verifyVars, hostAndPlans>>

\* perform_etcd_backup, except: create_backup_status(..., False, str(e)), then
\* raise; the except of check_backup_requests logs it and the call ends.
BackupExcept ==
    /\ pc = "bk_except"
    /\ \E apiOk \in BOOLEAN :
        /\ ApiOutcome(apiOk)
        /\ statuses' = CreateBackupStatus(cur.operation_id, FALSE, apiOk)
    /\ pc' = "idle"
    /\ items' = {}
    /\ cur' = NoReq
    /\ UNCHANGED <<todo, locals, disk, ann, isCP, ctlSince, backupEnabled, requests,
                   snapshots, errored, unsched, peer, verifyVars, hostAndPlans>>

\* check_backup_requests: delete_namespaced_config_map(cm.metadata.name), or
\* the call raises and the except of the function ends the call.
BackupDelete ==
    /\ pc = "bk_delete"
    /\ \E apiOk \in BOOLEAN :
        /\ ApiOutcome(apiOk)
        /\ requests' = IF apiOk THEN {r \in requests : r.name # cur.name} ELSE requests
        /\ errored' = IF apiOk THEN errored \ {cur.name} ELSE errored
        /\ pc' = IF apiOk THEN "bk_next" ELSE "idle"
        /\ items' = IF apiOk THEN items ELSE {}
    /\ cur' = NoReq
    /\ UNCHANGED <<todo, locals, disk, ann, isCP, ctlSince, backupEnabled, statuses,
                   snapshots, unsched, peer, verifyVars, hostAndPlans>>

\* process_operation: operation_dir.mkdir(exist_ok=True)
PoMkdir ==
    /\ pc = "po_mkdir"
    /\ disk' = [disk EXCEPT ![curOp].dir = TRUE]
    /\ pc' = "po_logs"
    /\ UNCHANGED <<todo, locals, ann, isCP, events, ctlSince, others>>

\* process_operation: logs_dir.mkdir(exist_ok=True)
PoLogs ==
    /\ pc = "po_logs"
    /\ disk' = [disk EXCEPT ![curOp].logs = TRUE]
    /\ pc' = "po_meta"
    /\ UNCHANGED <<todo, locals, ann, isCP, events, ctlSince, others>>

\* A dispatch that starts the operation directory afresh.
PoMetaOpenFresh ==
    /\ pc = "po_meta"
    /\ ~resume
    /\ disk' = [disk EXCEPT ![curOp].meta = [NoMeta EXCEPT !.state = "partial"],
                            ![curOp].steps = {}]
    /\ pc' = "po_meta_dump"
    /\ UNCHANGED <<todo, locals, ann, isCP, events, ctlSince, others>>

\* process_operation, not resume: open(metadata.json, 'w') truncates the file.
PoMetaOpen ==
    /\ pc = "po_meta"
    /\ ~resume
    /\ disk' = [disk EXCEPT ![curOp].meta = [NoMeta EXCEPT !.state = "partial"]]
    /\ pc' = "po_meta_dump"
    /\ UNCHANGED <<todo, locals, ann, isCP, events, ctlSince, others>>

\* process_operation, not resume: json.dump(metadata, f)
PoMetaDump ==
    /\ pc = "po_meta_dump"
    /\ disk' = [disk EXCEPT ![curOp].meta =
                   [state |-> "ok", target_version |-> argTv, components |-> argComps]]
    /\ pc' = "po_plan"
    /\ UNCHANGED <<todo, locals, ann, isCP, events, ctlSince, others>>

\* process_operation, resume: metadata.json is read and parsed.
PoMetaLoad ==
    /\ pc = "po_meta"
    /\ resume
    /\ disk[curOp].meta.state = "ok"
    /\ argTv' = disk[curOp].meta.target_version
    /\ argComps' = disk[curOp].meta.components
    /\ pc' = "po_plan"
    /\ UNCHANGED <<todo, curOp, resume, caller, plan, i, patchVal, disk, ann, isCP,
                   events, ctlSince, others>>

\* process_operation, resume: metadata.json is missing or not JSON; open or
\* json.load raises, nothing up to run() catches it and the process ends.
PoMetaLoadRaises ==
    /\ pc = "po_meta"
    /\ resume
    /\ disk[curOp].meta.state # "ok"
    /\ pc' = "down"
    /\ todo' = {}
    /\ ResetLocals
    /\ UNCHANGED <<disk, ann, isCP, events, ctlSince, others>>

\* process_operation: steps = get_upgrade_steps(target_version, components)
PoPlan ==
    /\ pc = "po_plan"
    /\ \E apiOk \in BOOLEAN :
        /\ ApiOutcome(apiOk)
        /\ plan' = GetUpgradeSteps(IsControlPlaneNode(apiOk), argComps)
    /\ firstPlan' = IF firstPlan[curOp] = << >>
                    THEN [firstPlan EXCEPT ![curOp] = plan']
                    ELSE firstPlan
    /\ i' = 1
    /\ pc' = "po_step"
    /\ UNCHANGED <<todo, curOp, resume, caller, argTv, argComps, patchVal, disk, ann,
                   isCP, ctlSince, snapState, snapLocals, unsched, peer, verifyVars,
                   host>>

\* The loop's test taking a started step for a finished one.
StepIsDoneOrStarted(op, n, name) ==
    \/ HasFile(op, StepFile(n, name, "done"))
    \/ HasFile(op, StepFile(n, name, "inprogress"))

\* The loop's test: step_file.exists()
StepIsDone(op, n, name) == HasFile(op, StepFile(n, name, "done"))

\* process_operation: the step's .done file exists, continue.
PoSkip ==
    /\ pc = "po_step"
    /\ i <= Len(plan)
    /\ StepIsDone(curOp, i, plan[i])
    /\ i' = i + 1
    /\ UNCHANGED <<pc, todo, curOp, resume, caller, argTv, argComps, plan, patchVal,
                   disk, ann, isCP, events, ctlSince, others>>

\* process_operation: the .inprogress file is written.
PoMark ==
    /\ pc = "po_step"
    /\ i <= Len(plan)
    /\ ~StepIsDone(curOp, i, plan[i])
    /\ disk' = [disk EXCEPT ![curOp].steps = @ \cup {StepFile(i, plan[i], "inprogress")}]
    /\ pc' = "po_run"
    /\ UNCHANGED <<todo, locals, ann, isCP, events, ctlSince, others>>

\* step_drain_node, step_uncordon_node: kubectl drain marks the node
\* unschedulable and then evicts (a drain that fails may have marked it),
\* kubectl uncordon clears the mark; the other steps work on the host.
Kubectl(name, ok, marked) ==
    IF name = "drain-node" THEN (IF ok THEN TRUE ELSE unsched \/ marked)
    ELSE IF name = "uncordon-node" /\ ok THEN FALSE
    ELSE unsched

\* process_operation: step_func(operation_dir, logs_dir, metadata) returns or
\* raises; on a host without a package manager the steps that need one raise.
PoRun ==
    /\ pc = "po_run"
    /\ \E ok \in BOOLEAN, marked \in BOOLEAN :
        /\ IF UnsupportedHost(plan[i]) THEN ~ok /\ events' = events ELSE ApiOutcome(ok)
        /\ pc' = IF ok THEN "po_rename" ELSE "po_fail"
        /\ unsched' = Kubectl(plan[i], ok, marked)
    /\ UNCHANGED <<todo, locals, disk, ann, isCP, ctlSince, snapState, snapLocals,
                   peer, verifyVars, hostAndPlans>>

\* process_operation: in_progress_file.rename(step_file)
PoRename ==
    /\ pc = "po_rename"
    /\ disk' = [disk EXCEPT ![curOp].steps =
                   (@ \ {StepFile(i, plan[i], "inprogress")})
                       \cup {StepFile(i, plan[i], "done")}]
    /\ i' = i + 1
    /\ pc' = "po_step"
    /\ UNCHANGED <<todo, curOp, resume, caller, argTv, argComps, plan, patchVal, ann,
                   isCP, events, ctlSince, others>>

\* The except branch without its return: the loop goes on.
PoFailNoReturn ==
    /\ pc = "po_fail"
    /\ disk' = [disk EXCEPT ![curOp].failed = [step |-> i, name |-> plan[i]]]
    /\ i' = i + 1
    /\ pc' = "po_step"
    /\ ctlSince' = ctlSince \ {curOp}
    /\ UNCHANGED <<todo, curOp, resume, caller, argTv, argComps, plan, patchVal, ann,
                   isCP, events, others>>

\* process_operation, except: the failed marker is written.
PoFail ==
    /\ pc = "po_fail"
    /\ disk' = [disk EXCEPT ![curOp].failed = [step |-> i, name |-> plan[i]]]
    /\ patchVal' = "failed"
    /\ pc' = "po_patch"
    /\ ctlSince' = ctlSince \ {curOp}
    /\ UNCHANGED <<todo, curOp, resume, caller, argTv, argComps, plan, i, ann, isCP,
                   events, others>>

\* process_operation, after the loop: the completed marker is written.
PoComplete ==
    /\ pc = "po_step"
    /\ i > Len(plan)
    /\ disk' = [disk EXCEPT ![curOp].completed = TRUE]
    /\ patchVal' = "completed"
    /\ pc' = "po_patch"
    /\ UNCHANGED <<todo, curOp, resume, caller, argTv, argComps, plan, i, ann, isCP,
                   events, ctlSince, others>>

\* update_node_annotation('.../status', value): patch_node, whose exception is
\* logged and dropped; process_operation then returns to its caller.
PoPatch ==
    /\ pc = "po_patch"
    /\ \E apiOk \in BOOLEAN :
        /\ ApiOutcome(apiOk)
        /\ ann' = IF apiOk THEN MergePatch(ann, "status", patchVal) ELSE ann
    /\ pc' = ReturnPc
    /\ ResetLocals
    /\ UNCHANGED <<todo, disk, isCP, ctlSince, others>>

\* ------------------------------------------------------------- environment
\* The process is killed; what it held in memory is gone.
Crash ==
    /\ pc # "down"
    /\ events < MaxEvents
    /\ events' = events + 1
    /\ pc' = "down"
    /\ todo' = {}
    /\ ResetLocals
    /\ items' = {}
    /\ cur' = NoReq
    /\ UNCHANGED <<disk, ann, isCP, ctlSince, snapState, unsched, peer, verifyVars, hostAndPlans>>

\* The process is started again: __init__, then run() calls resume_operations.
Restart ==
    /\ pc = "down"
    /\ pc' = "resume"
    /\ todo' = {DirName(op) : op \in {o \in AllOps : disk[o].dir}}
    /\ UNCHANGED <<locals, disk, ann, isCP, events, ctlSince, others>>

\* The controller writes an assignment, with or without the status.
CtlAssign(id, tv, comps, withStatus) ==
    /\ events < MaxEvents
    /\ events' = events + 1
    /\ ann' = [opid |-> id,
               status |-> IF withStatus THEN "pending" ELSE ann.status,
               target_version |-> tv,
               components |-> comps]
    /\ ctlSince' = IF withStatus /\ id \in AllOps THEN ctlSince \cup {id} ELSE ctlSince
    /\ UNCHANGED <<pc, todo, locals, disk, isCP, others>>

\* The controller creates a snapshot request.
CreateRequest(name, node, op) ==
    /\ events < MaxEvents
    /\ events' = events + 1
    /\ \A r \in requests : r.name # name
    /\ requests' = requests \cup
           {[name |-> name, node_name |-> node, operation_id |-> op,
             snapshot_name |-> <<"etcd", name>>]}
    /\ UNCHANGED <<pc, todo, locals, disk, ann, isCP, ctlSince, backupEnabled,
                   statuses, snapshots, errored, snapLocals, unsched, peer, verifyVars, hostAndPlans>>

\* A package manager is installed on the host, or taken off it.
HostChange ==
    /\ events < MaxEvents
    /\ events' = events + 1
    /\ \E m \in (PackageManagers \cup {NoPackageManager}) \ {pkgMgr} :
        /\ pkgMgr' = m
        /\ hadPkg' = (hadPkg \/ m # NoPackageManager)
    /\ UNCHANGED <<pc, todo, locals, disk, ann, isCP, ctlSince, snapState, snapLocals,
                   unsched, peer, verifyVars, firstPlan>>

Requester ==
    \E name \in ReqNames, node \in {NodeName, PeerName}, op \in Ops :
        CreateRequest(name, node, op)

Controller ==
    \E id \in Ops \cup {EmptyId}, tv \in TargetVersions, comps \in CompsValues,
       withStatus \in BOOLEAN :
        CtlAssign(id, tv, comps, withStatus)

Agent ==
    \/ ResumeDone
    \/ ResumeScan
    \/ TickReadFails
    \/ TickDispatch
    \/ TickNoWork
    \/ CheckBackupRequests
    \/ PoMkdir
    \/ PoLogs
    \/ PoMetaOpen
    \/ PoMetaDump
    \/ PoMetaLoad
    \/ PoMetaLoadRaises
    \/ PoPlan
    \/ PoSkip
    \/ PoMark
    \/ PoRun
    \/ PoRename
    \/ PoFail
    \/ PoComplete
    \/ PoPatch

Next ==
    \/ Agent
    \/ Crash
    \/ Restart
    \/ Controller

\* The default configuration: check_backup_requests returns at once.
Spec == Init /\ [][Next]_vars

\* The steps of check_backup_requests past its test of BACKUP_STORE_ENABLED.
Snapshotter ==
    \/ BackupList
    \/ BackupLoopEnd
    \/ BackupNext
    \/ PerformEtcdBackup
    \/ BackupStatus
    \/ BackupExcept
    \/ BackupDelete

NextSnap ==
    \/ Next
    \/ Snapshotter
    \/ Requester

\* Either setting of BACKUP_STORE_ENABLED, and a controller that creates
\* snapshot requests.
SpecSnap == InitSnap /\ [][NextSnap]_vars

TypeOK ==
    /\ pc \in {"down", "resume", "idle", "backup", "bk_next", "bk_snapshot",
               "bk_status", "bk_except", "bk_delete", "po_mkdir", "po_logs", "po_meta",
               "po_meta_dump", "po_plan", "po_step", "po_run", "po_rename",
               "po_fail", "po_patch"}
    /\ todo \subseteq {DirName(op) : op \in AllOps}
    /\ curOp \in AllOps \cup {NoId}
    /\ i \in 0..10
    /\ events \in 0..MaxEvents

\* The scheduling of the code: a running process takes its next step, and a
\* process that has ended is started again.
FairSpec == Spec /\ WF_vars(Agent) /\ WF_vars(Restart)

\* execute is called once more, with resume=true, on an operation whose
\* directory holds the completed marker.
ExecuteAgain ==
    /\ pc = "idle"
    /\ \E op \in Ops :
        /\ disk[op].completed
        /\ Call(op, NoVersion, << >>, TRUE, "again")
    /\ UNCHANGED <<todo, disk, ann, isCP, events, ctlSince, others>>

NextAgain ==
    \/ Next
    \/ ExecuteAgain

SpecAgain == Init /\ [][NextAgain]_vars

\* The controller hands out an operation id that holds the prefix.
ControllerOdd ==
    \E id \in {<<"op1">>, OddOp}, tv \in TargetVersions, comps \in CompsValues,
       withStatus \in BOOLEAN :
        CtlAssign(id, tv, comps, withStatus)

NextOdd ==
    \/ Agent
    \/ Crash
    \/ Restart
    \/ ControllerOdd

SpecOdd == Init /\ [][NextOdd]_vars

\* The controller drives one operation and asks for the snapshots of this
\* node one at a time.
ControllerOne ==
    \E comps \in CompsValues, withStatus \in BOOLEAN :
        CtlAssign(<<"op1">>, "1.29.4", comps, withStatus)

RequesterOne == CreateRequest("req1", NodeName, <<"op1">>)

NextLoop ==
    \/ Agent
    \/ Snapshotter
    \/ Crash
    \/ Restart
    \/ ControllerOne
    \/ RequesterOne

SpecLoop == InitSnap /\ [][NextLoop]_vars

\* The scheduling of the code, as in FairSpec.
FairLoop == SpecLoop /\ WF_vars(Agent \/ Snapshotter) /\ WF_vars(Restart)

\* A host with either package manager or with none, one operation, and
\* package managers that come and go.
InitHost ==
    /\ InitAgent
    /\ backupEnabled = FALSE
    /\ \E m \in PackageManagers \cup {NoPackageManager} : HostWith(m)

NextHost ==
    \/ Agent
    \/ Crash
    \/ Restart
    \/ ControllerOne
    \/ HostChange

SpecHost == InitHost /\ [][NextHost]_vars

\* ------------------------------------------------------------ verify-node
\* step_verify_node is called: start_time = time.time()
VerifyStart ==
    /\ vpc = "off"
    /\ vpc' = "test"
    /\ elapsed' = 0
    /\ shown' = ready
    /\ UNCHANGED <<wake, polls, ready, readRaised>>
    /\ UNCHANGED <<pc, todo, locals, disk, ann, isCP, events, ctlSince, snapState,
                   snapLocals, unsched, peer, hostAndPlans>>

\* step_verify_node: while time.time() - start_time < max_wait, else the raise
\* after the loop.
VerifyTest ==
    /\ vpc = "test"
    /\ vpc' = IF elapsed < MaxWait THEN "read" ELSE "raised"
    /\ UNCHANGED <<elapsed, wake, polls, ready, shown, readRaised>>
    /\ UNCHANGED <<pc, todo, locals, disk, ann, isCP, events, ctlSince, snapState,
                   snapLocals, unsched, peer, hostAndPlans>>

\* step_verify_node: read_node returns and the conditions are looked through
\* (return on Ready True), or it raises; without a return, time.sleep(10).
VerifyRead ==
    /\ vpc = "read"
    /\ polls' = polls + 1
    /\ \E apiOk \in BOOLEAN :
        /\ readRaised' = (readRaised \/ ~apiOk)
        /\ vpc' = IF apiOk /\ ready THEN "returned" ELSE "sleep"
    /\ wake' = elapsed + PollInterval
    /\ UNCHANGED <<elapsed, ready, shown>>
    /\ UNCHANGED <<pc, todo, locals, disk, ann, isCP, events, ctlSince, snapState,
                   snapLocals, unsched, peer, hostAndPlans>>

\* step_verify_node: time.sleep(10) returns.
VerifyWake ==
    /\ vpc = "sleep"
    /\ elapsed >= wake
    /\ vpc' = "test"
    /\ UNCHANGED <<elapsed, wake, polls, ready, shown, readRaised>>
    /\ UNCHANGED <<pc, todo, locals, disk, ann, isCP, events, ctlSince, snapState,
                   snapLocals, unsched, peer, hostAndPlans>>

\* Time passes while the step sleeps, half a sleep at a time.
Tick ==
    /\ vpc = "sleep"
    /\ elapsed < wake
    /\ elapsed' = elapsed + PollInterval \div 2
    /\ UNCHANGED <<vpc, wake, polls, ready, shown, readRaised>>
    /\ UNCHANGED <<pc, todo, locals, disk, ann, isCP, events, ctlSince, snapState,
                   snapLocals, unsched, peer, hostAndPlans>>

\* The kubelet reports the node Ready, or not Ready any more.
ReadyFlip ==
    /\ ready' = ~ready
    /\ shown' = (shown \/ (vpc # "off" /\ ready' /\ elapsed < MaxWait))
    /\ UNCHANGED <<vpc, elapsed, wake, polls, readRaised>>
    /\ UNCHANGED <<pc, todo, locals, disk, ann, isCP, events, ctlSince, snapState,
                   snapLocals, unsched, peer, hostAndPlans>>

NextVerify ==
    \/ VerifyStart
    \/ VerifyTest
    \/ VerifyRead
    \/ VerifyWake
    \/ Tick
    \/ ReadyFlip

\* One call of step_verify_node, with the clock and the node's condition.
SpecVerify == Init /\ [][NextVerify]_vars

\* ------------------------------------------------------------------ claims
\* A step of the running agent: not a kill, not a restart, not a write of the
\* controller (the one act of the environment that leaves the agent in place).
AgentStep == pc # "down" /\ pc' # "down" /\ ~(events' # events /\ pc' = pc)

\* process_operation returns to its caller.
Returns == pc = "po_patch" /\ pc' \in {"resume", "backup", "idle"}

\* C1: in every reachable state no operation directory holds both terminal
\* markers, completed and failed.
C1_SingleTerminalMarker ==
    \A op \in Ops : ~(disk[op].completed /\ disk[op].failed # NoFail)

\* C2: an operation whose execute was interrupted by a kill (its directory
\* exists, holds no terminal marker, and the process is down) eventually gets
\* a terminal marker once the agent is restarted.
C2_CrashResume ==
    \A op \in Ops :
        [](pc = "down" /\ disk[op].dir /\ ~Terminal(op) => <>Terminal(op))

\* C3: whenever process_operation returns, the status annotation is completed
\* iff the operation directory holds the completed marker, and failed otherwise.
C3_StatusMirrorsDisk ==
    [][Returns =>
        /\ (ann'.status = "completed") <=> disk'[curOp].completed
        /\ ~disk'[curOp].completed => ann'.status = "failed"]_vars

\* C4: when the step function of step i raises, the failed marker is written
\* with index i and that step's name and nothing else in the directory changes;
\* then the status patch with value failed is issued (it sets the status to
\* failed unless the API call raises) and process_operation returns without
\* touching the directory again: no later step is started, no step marker is
\* created and no completed marker is written.
C4_FailFast ==
    [][/\ (pc = "po_run" /\ AgentStep) =>
            /\ pc' \in {"po_rename", "po_fail"}
            /\ UNCHANGED <<disk, i, plan, curOp>>
       /\ (pc = "po_fail" /\ AgentStep) =>
            /\ disk'[curOp].failed = [step |-> i, name |-> plan[i]]
            /\ disk'[curOp].steps = disk[curOp].steps
            /\ disk'[curOp].completed = disk[curOp].completed
            /\ pc' = "po_patch"
            /\ patchVal' = "failed"
       /\ (pc = "po_patch" /\ patchVal = "failed" /\ AgentStep) =>
            /\ Returns
            /\ disk' = disk
            /\ ann' = IF events' = events
                      THEN [ann EXCEPT !.status = "failed"]
                      ELSE ann]_vars

\* C4 witness: a step that is not the last one has raised, the failed marker
\* carries its index and name, and the patch is about to be issued.
C4_Witness ==
    /\ pc = "po_patch"
    /\ patchVal = "failed"
    /\ i < Len(plan)
    /\ disk[curOp].failed = [step |-> i, name |-> plan[i]]

\* C5: an execute with resume=true on a completed operation invokes no step
\* function, issues no patch_node call, and leaves the operation directories
\* and the node annotations as they were.
C5_RerunIsNoOp ==
    [][(caller = "again" /\ AgentStep) =>
        /\ disk' = disk
        /\ ann' = ann
        /\ pc # "po_run"
        /\ pc # "po_patch"]_vars

\* C6: a step that is reached is skipped (the loop moves to the next index
\* with nothing invoked and nothing written) iff its .done file exists at that
\* moment; otherwise its .inprogress file is written and its step function is
\* invoked, so a step function only ever runs while its .done file is absent.
C6_NoSpuriousSkip ==
    [][/\ (pc = "po_step" /\ i <= Len(plan) /\ AgentStep) =>
            /\ (<<i, plan[i], "done">> \in disk[curOp].steps)
                   <=> (pc' = "po_step" /\ i' = i + 1 /\ disk' = disk)
            /\ (<<i, plan[i], "done">> \notin disk[curOp].steps)
                   <=> (pc' = "po_run" /\ i' = i
                        /\ <<i, plan[i], "inprogress">> \in disk'[curOp].steps)
       /\ (pc = "po_run" /\ AgentStep) =>
            <<i, plan[i], "done">> \notin disk[curOp].steps]_vars

\* C6 witness: the step function of the step that failed before is being
\* invoked again.
C6_Witness ==
    /\ pc = "po_run"
    /\ disk[curOp].failed = [step |-> i, name |-> plan[i]]

\* C7: a .done file, once there, stays and its step never has an .inprogress
\* file again; a completed or failed marker, once there, stays.
C7_ForwardOnly ==
    [][\A op \in Ops :
        /\ \A f \in disk[op].steps :
              f[3] = "done" =>
                  /\ f \in disk'[op].steps
                  /\ <<f[1], f[2], "inprogress">> \notin disk'[op].steps
        /\ disk[op].completed => disk'[op].completed
        /\ disk[op].failed # NoFail => disk'[op].failed # NoFail]_vars

\* C7 witness: an operation that failed is executed again by a fresh dispatch
\* while its directory holds .done files.
C7_Witness ==
    /\ pc = "po_step"
    /\ ~resume
    /\ disk[curOp].failed # NoFail
    /\ \E f \in disk[curOp].steps : f[3] = "done"

\* C8 as stated: a tick that reads the node dispatches iff the node carries an
\* operation-id annotation and its status annotation has the value pending.
C8_DispatchIffPending ==
    [][(pc = "idle" /\ pc' # "idle" /\ AgentStep) =>
        ((pc' = "po_mkdir") <=> (ann.opid # NoId /\ ann.status = "pending"))]_vars

\* C8 amended: a tick that reads the node calls process_operation with
\* resume=false, for the annotated id, iff the operation-id annotation is
\* present and not empty and the status annotation is absent or pending;
\* otherwise the tick goes on to the snapshot requests.
C8_DispatchIffPendingOrAbsent ==
    [][(pc = "idle" /\ pc' # "idle" /\ AgentStep) =>
        /\ (pc' = "po_mkdir" /\ ~resume' /\ curOp' = ann.opid /\ caller' = "reconcile")
               <=> (/\ ann.opid \notin {NoId, EmptyId}
                    /\ ann.status \in {Absent, "pending"})
        /\ pc' \in {"po_mkdir", "backup"}]_vars

\* C8 witness: an operation was dispatched from a node whose status
\* annotation is absent.
C8_Witness ==
    /\ pc = "po_mkdir"
    /\ caller = "reconcile"
    /\ ann.status = Absent

\* C9: a step function of an operation whose directory holds the failed
\* marker is invoked only if the controller has written status=pending for it
\* since that failure.
C9_RedriveOnlyByController ==
    (pc = "po_run" /\ disk[curOp].failed # NoFail) => curOp \in ctlSince

\* C10: the agent's status patch leaves operation-id, target-version and
\* components as they are, and does not replace the pending status of an
\* assignment the controller wrote for another operation.
C10_NoClobber ==
    [][(pc = "po_patch" /\ AgentStep) =>
        /\ ann'.opid = ann.opid
        /\ ann'.target_version = ann.target_version
        /\ ann'.components = ann.components
        /\ (ann.opid \in Ops /\ ann.opid # curOp /\ ann.status = "pending")
               => ann'.status = "pending"]_vars

\* C11: a call of check_backup_requests that has listed the requests ends
\* (other than by its list or delete call raising) only when every listed
\* request of this node has been processed and deleted, whether its snapshot
\* succeeded or failed: the request in hand is gone and has its status object,
\* and no listed request of this node is left unvisited.
C11_SnapshotFanOut ==
    [][(/\ pc \in {"bk_next", "bk_snapshot", "bk_status", "bk_except"}
        /\ pc' = "idle"
        /\ AgentStep) =>
        /\ \A r \in requests' : r.name # cur.name
        /\ \A cm \in items : cm.node_name # NodeName
        /\ (cur # NoReq /\ events' = events) =>
               \E s \in statuses' : s.name = StatusName(cur.operation_id)]_vars

\* C12: perform_etcd_backup is never called for a request whose snapshot has
\* raised before, and no two status objects carry the same name.
C12_SnapshotErrorTerminal ==
    /\ pc = "bk_snapshot" => cur.name \notin errored
    /\ \A s1 \in statuses, s2 \in statuses : s1.name = s2.name => s1 = s2

\* C13: with or without BACKUP_STORE_ENABLED, a call of check_backup_requests
\* made while a request of this node exists does not return without listing
\* the requests (unless the list call raises).
C13_ServicedWithoutSink ==
    [][(/\ pc = "backup"
        /\ AgentStep
        /\ events' = events
        /\ \E r \in requests : r.node_name = NodeName) =>
        pc' = "bk_next"]_vars

\* C14: at startup each directory entry is visited before the loop is entered,
\* and process_operation is called with resume=true on the directory of the
\* entry iff that directory holds neither the completed nor the failed marker;
\* a directory that holds one of them is not resumed.
C14_ResumeExactlyIncomplete ==
    [][/\ (pc = "resume" /\ AgentStep) =>
            \A entry \in todo \ todo' :
                (/\ pc' = "po_mkdir"
                 /\ resume'
                 /\ caller' = "resume"
                 /\ DirName(curOp') = entry) <=> ~Terminal(DirOf(entry))
       /\ (pc = "resume" /\ pc' = "idle") => todo = {}
       /\ (caller' = "resume" /\ pc' = "po_mkdir") => ~Terminal(curOp')]_vars

\* C15: the plan process_operation gets is the reference sequence of the role
\* (control plane when the node read returns and carries the label, worker
\* otherwise) and of the components: upgrade-containerd is in it iff
\* containerd is one of the components, the control-plane plan has 6 or 7
\* steps and neither drain-node nor uncordon-node, the worker plan 8 or 9.
C15_PlanIsReference ==
    [][(pc = "po_plan" /\ AgentStep) =>
        LET withContainerd == \E k \in DOMAIN argComps : argComps[k] = "containerd"
            controlPlane == isCP /\ events' = events
        IN  /\ (controlPlane /\ withContainerd) =>
                plan' = <<"download-packages", "upgrade-kubeadm", "kubeadm-upgrade",
                          "upgrade-kubelet", "upgrade-containerd", "restart-kubelet",
                          "verify-node">>
            /\ (controlPlane /\ ~withContainerd) =>
                plan' = <<"download-packages", "upgrade-kubeadm", "kubeadm-upgrade",
                          "upgrade-kubelet", "restart-kubelet", "verify-node">>
            /\ (~controlPlane /\ withContainerd) =>
                plan' = <<"download-packages", "drain-node", "upgrade-kubeadm",
                          "kubeadm-upgrade-node", "upgrade-kubelet",
                          "upgrade-containerd", "restart-kubelet", "verify-node",
                          "uncordon-node">>
            /\ (~controlPlane /\ ~withContainerd) =>
                plan' = <<"download-packages", "drain-node", "upgrade-kubeadm",
                          "kubeadm-upgrade-node", "upgrade-kubelet", "restart-kubelet",
                          "verify-node", "uncordon-node">>
            /\ Len(plan') = (IF controlPlane THEN 6 ELSE 8)
                              + (IF withContainerd THEN 1 ELSE 0)]_vars

\* C15 witness: the plan of a control-plane node was computed for components
\* that name containerd.
C15_Witness ==
    /\ pc = "po_step"
    /\ isCP
    /\ Len(plan) = 7
    /\ plan[5] = "upgrade-containerd"

\* The agent is in the loop of run(): between two ticks, or inside reconcile.
InLoop ==
    \/ pc \in {"idle", "backup", "bk_next", "bk_snapshot", "bk_status", "bk_except",
               "bk_delete"}
    \/ pc \in {"po_mkdir", "po_logs", "po_meta", "po_meta_dump", "po_plan", "po_step",
               "po_run", "po_rename", "po_fail", "po_patch"} /\ caller = "reconcile"

\* C16: an agent that is in the loop of run() stays in it unless the process
\* is killed, whatever raises in reconcile and however an operation ends, and
\* the tick it is in comes to its end and another tick starts.
C16_LoopNeverLeft ==
    /\ [][(InLoop /\ ~InLoop') =>
            (pc' = "down" /\ events' = events + 1)]_vars
    /\ [](InLoop => <>(pc = "idle" \/ pc = "down"))
    /\ [](pc = "idle" => <>(pc \in {"po_mkdir", "backup", "down"}))

\* C16 witness: the snapshot of a request has raised and the agent is back
\* between two ticks.
C16_Witness ==
    /\ pc = "idle"
    /\ errored # {}

\* A step of the agent writes no annotation of its node but the status, which
\* it sets to completed or failed, and writes nothing of another node.
WritesStatusOnly ==
    /\ peer' = peer
    /\ ann'.opid = ann.opid
    /\ ann'.target_version = ann.target_version
    /\ ann'.components = ann.components
    /\ ann'.status # ann.status =>
           (pc = "po_patch" /\ ann'.status \in {"completed", "failed"})

\* C17 as stated: setting the status annotation of its own node to completed
\* or failed is the only change the agent makes to a node object.
C17_OnlyStatusAnnotation ==
    [][AgentStep => (WritesStatusOnly /\ unsched' = unsched)]_vars

\* C17 amended: the agent writes no annotation but the status of its own
\* node, set to completed or failed, and nothing of another node; the one
\* other change it makes to its node is the unschedulable mark, set by the
\* drain-node step and cleared by the uncordon-node step of a worker plan.
C17_StatusAndCordonOnly ==
    [][AgentStep =>
        /\ WritesStatusOnly
        /\ unsched' # unsched =>
              /\ pc = "po_run"
              /\ plan[i] = (IF unsched' THEN "drain-node" ELSE "uncordon-node")]_vars

\* C17 witness: a worker's operation failed after the drain; the node is left
\* unschedulable and its status annotation is failed.
C17_Witness ==
    /\ unsched
    /\ ann.status = "failed"
    /\ ann.opid \in Ops

\* C18: a metadata.json that has been written is never changed again.
C18_MetadataImmutable ==
    [][\A op \in AllOps :
        disk[op].meta.state = "ok" => disk'[op].meta = disk[op].meta]_vars

\* C19: an operation directory never holds the .inprogress files of two
\* steps, nor the .inprogress and the .done file of one step.
C19_SingleInProgress ==
    \A op \in AllOps :
        /\ Cardinality({f \in disk[op].steps : f[3] = "inprogress"}) <= 1
        /\ \A f \in disk[op].steps :
              f[3] = "inprogress" => <<f[1], f[2], "done">> \notin disk[op].steps

\* C20: verify-node, when none of its node reads raises, raises its deadline
\* error only if the node has not shown Ready True at any time of the
\* max_wait seconds from the step's start.
C20_DeadlineIffNeverReady ==
    (vpc = "raised" /\ ~readRaised) => ~shown

\* C21: a step that needs a package manager (download-packages,
\* upgrade-kubeadm, upgrade-kubelet) and runs while neither apt-get nor yum is
\* found raises and writes nothing; the failed marker that follows names that
\* step, whose .done file is not there; and on a host that never had a
\* package manager a directory holds at most the .inprogress file of step 1
\* and a failed marker of step 1, never completed.
C21_UnsupportedHostFails ==
    /\ [][(/\ pc = "po_run"
           /\ AgentStep
           /\ plan[i] \in {"download-packages", "upgrade-kubeadm", "upgrade-kubelet"}
           /\ pkgMgr = "none")
          => (pc' = "po_fail" /\ disk' = disk /\ events' = events)]_vars
    /\ [][(pc = "po_fail" /\ AgentStep)
          => /\ disk'[curOp].failed = [step |-> i, name |-> plan[i]]
             /\ StepFile(i, plan[i], "done") \notin disk'[curOp].steps
             /\ patchVal' = "failed"]_vars
    /\ [](~hadPkg =>
            \A op \in AllOps :
                /\ disk[op].steps \subseteq {StepFile(1, "download-packages", "inprogress")}
                /\ disk[op].failed \in {NoFail, [step |-> 1, name |-> "download-packages"]}
                /\ ~disk[op].completed)

\* An operation that got past step 1 fails at upgrade-kubeadm on a host whose
\* package manager is gone, nothing else having gone wrong.
C21_Witness ==
    /\ pc = "po_patch"
    /\ events = 2
    /\ patchVal = "failed"
    /\ pkgMgr = "none"
    /\ disk[curOp].failed.name = "upgrade-kubeadm"
    /\ StepFile(1, "download-packages", "done") \in disk[curOp].steps

\* C22: in every reachable state of an operation directory, a step file
\* (.inprogress or .done) of index n comes with a .done file of every index
\* below n, and the step files of one index all bear one step name.
C22_MarkersSequential ==
    \A op \in AllOps :
        /\ \A f \in disk[op].steps : \A n \in 1..(f[1] - 1) :
               \E g \in disk[op].steps : g[1] = n /\ g[3] = "done"
        /\ \A f \in disk[op].steps, g \in disk[op].steps :
               f[1] = g[1] => f[2] = g[2]

\* The agent is in resume_operations, or in a process_operation called by it.
InStartup == pc = "resume" \/ (pc \in {"po_mkdir", "po_logs", "po_meta"} /\ caller = "resume")

\* C23: whatever a killed process_operation left on disk, a restarted agent
\* does not exit during resume_operations: from startup the process goes down
\* only by a kill.
C23_StartupSurvivesDisk ==
    [][(InStartup /\ pc' = "down") => events' = events + 1]_vars

\* C24: every process_operation on an operation id (first dispatch, resume
\* after a restart, a retry with the same id) works through the steps of the
\* first one on that id, and so names its step files by the same indices and
\* names.
C24_SamePlanEveryInvocation ==
    /\ pc \in {"po_step", "po_run", "po_rename", "po_fail"} => plan = firstPlan[curOp]
    /\ \A op \in AllOps : \A f \in disk[op].steps :
           f[1] <= Len(firstPlan[op]) /\ firstPlan[op][f[1]] = f[2]

\* C25: once the completed marker of an operation exists, no step function of
\* that operation is invoked.
C25_CompletedNeverRunsAgain ==
    pc = "po_run" => ~disk[curOp].completed

\* C26: in every reachable state, a directory that holds the completed marker
\* holds no .inprogress file, and when process_operation has just written the
\* marker every step of its plan has its .done file.
C26_CompletedCertifiesPlan ==
    \A op \in AllOps : disk[op].completed =>
        /\ \A f \in disk[op].steps : f[3] # "inprogress"
        /\ (op = curOp /\ pc = "po_patch" /\ patchVal = "completed") =>
               \A n \in 1..Len(plan) : HasFile(op, StepFile(n, plan[n], "done"))

====
